---------------------------- MODULE Spec2Model ----------------------------
(***************************************************************************)
(* GDumbPlugin (avalanche/training/plugins/gdumb_plugin.py): the external  *)
(* memory kept by adapt_train_dataset.  One call of adapt_train_dataset is *)
(* a loop over the step's patterns followed by the concatenation of the    *)
(* helper memory; train_dataset is consumed one pattern at a time.         *)
(*                                                                         *)
(* A pattern is modelled by its serial number (the n-th pattern ever       *)
(* delivered), a target by its class label.  Patterns are assumed to have  *)
(* a leading dimension of size 1, the shape for which torch.cat(dim=0) of  *)
(* the helper memory yields one row per pattern.                           *)
(***************************************************************************)
EXTENDS Integers, Sequences, FiniteSets, TLC

\* ---------------------------------------------------------------- bounds
MaxCap == 6          \* mem_size ranges over 0..MaxCap
NumLabels == 2       \* class labels are 0..NumLabels-1
MaxSamples == 6      \* patterns delivered over a whole run
MaxSteps == 2        \* calls of adapt_train_dataset over a whole run
SmallCap == 2        \* mem_size ranges over 0..SmallCap where labels outnumber it

Labels == 0 .. (NumLabels - 1)

VARIABLES
    mem_size,        \* self.mem_size
    self_ext_mem,    \* self.ext_mem: None or a TensorDataset
    counter,         \* self.counter: <<label, count>> pairs in insertion order
    train_dataset,   \* the <<pattern, target>> pairs the running/last call
                     \* has iterated over so far
    ext_mem,         \* the local helper memory [[], []]
    pc,              \* "idle" | "loop" | "raised"
    exc,             \* the exception that ended the call, "" if none
    namespace,       \* train_dataset as published by update_namespace
    n_seen,          \* patterns delivered so far (next serial number - 1)
    hist,            \* label sequences of the completed calls
    log,             \* what each iteration of the running/last call did
    mem0,            \* self.ext_mem at the start of the running/last call
    counter0         \* self.counter at the start of the running/last call

vars == <<mem_size, self_ext_mem, counter, train_dataset, ext_mem, pc, exc,
          namespace, n_seen, hist, log, mem0, counter0>>

\* ------------------------------------------------------------ data model
\* self.ext_mem = None
None == [isNone |-> TRUE, tensors |-> << <<>>, <<>> >>]

\* TensorDataset(x, y): tensors[1] are the patterns, tensors[2] the targets
TensorDataset(x, y) == [isNone |-> FALSE, tensors |-> <<x, y>>]

\* len(dataset), 0 for None
MemLen(m) == Len(m.tensors[2])

\* number of entries of memory m carrying label l
CountLabel(m, l) == Cardinality({j \in DOMAIN m.tensors[2] : m.tensors[2][j] = l})

\* self.counter.keys()
CounterKeys(c) == {c[n][1] : n \in DOMAIN c}

\* self.counter[k] for a key that is present
CounterGet(c, k) == c[CHOOSE n \in DOMAIN c : c[n][1] = k][2]

\* sum(self.counter.values())
RECURSIVE CounterSum(_)
CounterSum(c) == IF c = <<>> THEN 0 ELSE c[1][2] + CounterSum(Tail(c))

\* variant: the decrement of the evicted class is lost
CounterAddNoDecrement(c, k, d) ==
    IF d < 0 THEN c
    ELSE IF k \in CounterKeys(c)
         THEN [n \in DOMAIN c |-> IF c[n][1] = k THEN <<k, c[n][2] + d>> ELSE c[n]]
         ELSE Append(c, <<k, d>>)

\* variant: a key whose count reaches 0 is deleted
CounterAddDropsZero(c, k, d) ==
    LET r == IF k \in CounterKeys(c)
             THEN [n \in DOMAIN c |-> IF c[n][1] = k THEN <<k, c[n][2] + d>> ELSE c[n]]
             ELSE Append(c, <<k, d>>)
        NonZero(e) == e[2] # 0
    IN SelectSeq(r, NonZero)

\* self.counter[k] += d on a defaultdict(int): a missing key is inserted last
CounterAdd(c, k, d) ==
    IF k \in CounterKeys(c)
    THEN [n \in DOMAIN c |-> IF c[n][1] = k THEN <<k, c[n][2] + d>> ELSE c[n]]
    ELSE Append(c, <<k, d>>)

\* variant: the quota is computed once, from the counter as the call found it
patterns_per_class_stale(c, ms) ==
    IF counter0 = <<>> THEN 1 ELSE ms \div Len(counter0)

\* patterns_per_class: 1 for an empty counter, else int(mem_size / len(keys))
patterns_per_class(c, ms) == IF c = <<>> THEN 1 ELSE ms \div Len(c)

\* variant: the count may reach one above patterns_per_class
EligibleInclusive(c, ms, t) ==
    IF t \notin CounterKeys(c) THEN TRUE
    ELSE CounterGet(c, t) <= patterns_per_class(c, ms)

\* the admission test of the loop body
Eligible(c, ms, t) ==
    IF t \notin CounterKeys(c) THEN TRUE
    ELSE CounterGet(c, t) < patterns_per_class(c, ms)

\* variant: the memory counts as full only above mem_size
MemoryFullStrict(c, ms) == CounterSum(c) > ms

\* variant: the memory counts as full one sample early
MemoryFullEarly(c, ms) == CounterSum(c) + 1 >= ms

\* sum(self.counter.values()) >= self.mem_size
MemoryFull(c, ms) == CounterSum(c) >= ms

\* variant: max(self.counter) without key=, the largest label
to_remove_max_key(c) ==
    CHOOSE k \in CounterKeys(c) : \A l \in CounterKeys(c) : l <= k

\* variant: min() for max(), the first key holding the minimum count
to_remove_min(c) ==
    c[CHOOSE n \in DOMAIN c :
        /\ \A m \in DOMAIN c : c[m][2] >= c[n][2]
        /\ \A m \in DOMAIN c : m < n => c[m][2] > c[n][2]][1]

\* max(self.counter, key=self.counter.get): first key, in insertion order,
\* holding the maximum count (counter non-empty)
to_remove(c) ==
    c[CHOOSE n \in DOMAIN c :
        /\ \A m \in DOMAIN c : c[m][2] <= c[n][2]
        /\ \A m \in DOMAIN c : m < n => c[m][2] < c[n][2]][1]

\* the first j of the search loop whose target equals label, 0 when the loop
\* ends without a break
FirstSlot(m, label) ==
    IF \E j \in DOMAIN m.tensors[2] : m.tensors[2][j] = label
    THEN CHOOSE j \in DOMAIN m.tensors[2] :
            /\ m.tensors[2][j] = label
            /\ \A k \in DOMAIN m.tensors[2] : k < j => m.tensors[2][k] # label
    ELSE 0

\* variant: the pattern is written, the target is not
OverwritePatternOnly(m, j, sample) ==
    IF j = 0 THEN m
    ELSE TensorDataset([m.tensors[1] EXCEPT ![j] = sample[1]], m.tensors[2])

\* self.ext_mem.tensors[0][j] = pattern; self.ext_mem.tensors[1][j] = target
Overwrite(m, j, sample) ==
    IF j = 0 THEN m
    ELSE TensorDataset([m.tensors[1] EXCEPT ![j] = sample[1]],
                       [m.tensors[2] EXCEPT ![j] = sample[2]])

\* variant: the new patterns replace the old memory
ConcatenateDropsOld(helper, m) ==
    IF Len(helper[1]) > 0 THEN TensorDataset(helper[1], helper[2]) ELSE m

\* variant: no test of len(ext_mem[0]) > 0
ConcatenateUnguarded(helper, m) ==
    IF m.isNone
    THEN TensorDataset(helper[1], helper[2])
    ELSE TensorDataset(helper[1] \o m.tensors[1], helper[2] \o m.tensors[2])

\* variant: onto an existing memory the new patterns are not concatenated
ConcatenateKeepsOld(helper, m) ==
    IF Len(helper[1]) > 0 /\ m.isNone
    THEN TensorDataset(helper[1], helper[2])
    ELSE m

\* the concatenation after the loop: helper memory first, old memory after
Concatenate(helper, m) ==
    IF Len(helper[1]) > 0
    THEN IF m.isNone
         THEN TensorDataset(helper[1], helper[2])
         ELSE TensorDataset(helper[1] \o m.tensors[1], helper[2] \o m.tensors[2])
    ELSE m

\* ------------------------------------------------------------ actions
\* GDumbPlugin.__init__
Init ==
    /\ mem_size \in 0 .. MaxCap
    /\ self_ext_mem = None
    /\ counter = <<>>
    /\ train_dataset = <<>>
    /\ ext_mem = << <<>>, <<>> >>
    /\ pc = "idle"
    /\ exc = ""
    /\ namespace = None
    /\ n_seen = 0
    /\ hist = <<>>
    /\ log = <<>>
    /\ mem0 = None
    /\ counter0 = <<>>

\* adapt_train_dataset is entered; ext_mem = [[], []]
Call ==
    /\ pc = "idle"
    /\ Len(hist) < MaxSteps
    /\ train_dataset' = <<>>
    /\ ext_mem' = << <<>>, <<>> >>
    /\ pc' = "loop"
    /\ log' = <<>>
    /\ mem0' = self_ext_mem
    /\ counter0' = counter
    /\ UNCHANGED <<mem_size, self_ext_mem, counter, exc, namespace, n_seen, hist>>

\* the (pattern, target) pair the iteration of train_dataset yields next
Sample(t) == <<n_seen + 1, t>>

\* the loop is running and train_dataset yields one more pattern
InLoop == pc = "loop" /\ n_seen < MaxSamples

\* one line of the log: the pattern, the two tests as evaluated on entry of
\* the loop body, and what the body did
Entry(t, kind, victim, slot) ==
    [sample |-> Sample(t), kind |-> kind, victim |-> victim, slot |-> slot,
     eligible |-> Eligible(counter, mem_size, t),
     full |-> MemoryFull(counter, mem_size)]

\* the pattern is not admitted: nothing happens
Discard(t) ==
    /\ InLoop
    /\ ~Eligible(counter, mem_size, t)
    /\ train_dataset' = Append(train_dataset, Sample(t))
    /\ n_seen' = n_seen + 1
    /\ log' = Append(log, Entry(t, "discard", -1, 0))
    /\ UNCHANGED <<mem_size, self_ext_mem, counter, ext_mem, pc, exc, namespace,
                   hist, mem0, counter0>>

\* memory not full: the pattern goes to the helper memory
Stage(t) ==
    /\ InLoop
    /\ Eligible(counter, mem_size, t)
    /\ ~MemoryFull(counter, mem_size)
    /\ ext_mem' = <<Append(ext_mem[1], Sample(t)[1]), Append(ext_mem[2], t)>>
    /\ counter' = CounterAdd(counter, t, 1)
    /\ train_dataset' = Append(train_dataset, Sample(t))
    /\ n_seen' = n_seen + 1
    /\ log' = Append(log, Entry(t, "stage", -1, 0))
    /\ UNCHANGED <<mem_size, self_ext_mem, pc, exc, namespace, hist, mem0,
                   counter0>>

\* full memory: the first slot of the most represented class, if the search
\* finds one, is overwritten; the counts are updated either way
Evict(t) ==
    /\ InLoop
    /\ Eligible(counter, mem_size, t)
    /\ MemoryFull(counter, mem_size)
    /\ counter # <<>>
    /\ ~self_ext_mem.isNone
    /\ LET victim == to_remove(counter)
           j == FirstSlot(self_ext_mem, victim)
       IN /\ self_ext_mem' = Overwrite(self_ext_mem, j, Sample(t))
          /\ counter' = CounterAdd(CounterAdd(counter, victim, -1), t, 1)
          /\ log' = Append(log, Entry(t, "evict", victim, j))
    /\ train_dataset' = Append(train_dataset, Sample(t))
    /\ n_seen' = n_seen + 1
    /\ UNCHANGED <<mem_size, ext_mem, pc, exc, namespace, hist, mem0, counter0>>

\* full memory, but max() of an empty counter (ValueError) or
\* self.ext_mem still None (AttributeError): the call ends by the exception
EvictRaise(t) ==
    /\ InLoop
    /\ Eligible(counter, mem_size, t)
    /\ MemoryFull(counter, mem_size)
    /\ (counter = <<>> \/ self_ext_mem.isNone)
    /\ exc' = IF counter = <<>> THEN "ValueError" ELSE "AttributeError"
    /\ pc' = "raised"
    /\ ext_mem' = << <<>>, <<>> >>
    /\ train_dataset' = Append(train_dataset, Sample(t))
    /\ n_seen' = n_seen + 1
    /\ log' = Append(log, Entry(t, "raise", -1, 0))
    /\ UNCHANGED <<mem_size, self_ext_mem, counter, namespace, hist, mem0,
                   counter0>>

\* train_dataset is exhausted: concatenate, then
\* update_namespace(train_dataset=self.ext_mem)
Return ==
    /\ pc = "loop"
    /\ self_ext_mem' = Concatenate(ext_mem, self_ext_mem)
    /\ namespace' = self_ext_mem'
    /\ ext_mem' = << <<>>, <<>> >>
    /\ hist' = Append(hist, [k \in DOMAIN train_dataset |-> train_dataset[k][2]])
    /\ pc' = "idle"
    /\ UNCHANGED <<mem_size, counter, train_dataset, exc, n_seen, log, mem0,
                   counter0>>

Next ==
    \/ Call
    \/ \E t \in Labels : Discard(t)
    \/ \E t \in Labels : Stage(t)
    \/ \E t \in Labels : Evict(t)
    \/ \E t \in Labels : EvictRaise(t)
    \/ Return

Spec == Init /\ [][Next]_vars

TypeOK ==
    /\ mem_size \in 0 .. MaxCap
    /\ pc \in {"idle", "loop", "raised"}
    /\ n_seen \in 0 .. MaxSamples

\* ------------------------------------------------ vocabulary of the claims
\* a call of adapt_train_dataset has returned and none is running
Completed == pc = "idle" /\ Len(hist) > 0

\* this step is one iteration of the loop, over a pattern of label t
Iter(t) == pc = "loop" /\ train_dataset' = Append(train_dataset, <<n_seen + 1, t>>)

\* samples in Memory plus the pending additions of the running call
Held == MemLen(self_ext_mem) + Len(ext_mem[1])

\* the pair <<p, l>> is an entry of memory m
InMemory(m, p, l) ==
    \E j \in DOMAIN m.tensors[1] : m.tensors[1][j] = p /\ m.tensors[2][j] = l

\* memories m and n differ at slot j and nowhere else
DifferOnlyAt(m, n, j) ==
    /\ MemLen(m) = MemLen(n)
    /\ \A k \in DOMAIN m.tensors[2] :
          k # j => m.tensors[1][k] = n.tensors[1][k] /\ m.tensors[2][k] = n.tensors[2][k]

\* ceil(a / b) for b > 0
CeilDiv(a, b) == (a + b - 1) \div b

\* the kinds of log entries of the running/last call
Kinds == {log[k].kind : k \in DOMAIN log}

\* ------------------------------------------------------------------ C1
\* C1: after every completed call, counter[label] equals the number of
\* Memory entries carrying that label, for every label in the counter.
C1_PerLabelCounts ==
    Completed =>
        \A l \in CounterKeys(counter) :
            CounterGet(counter, l) = CountLabel(self_ext_mem, l)

\* ------------------------------------------------------------------ C2
\* C2: after every completed call, the sum of the counter's values equals
\* the number of samples in Memory.
C2_TotalCount ==
    Completed => CounterSum(counter) = MemLen(self_ext_mem)

\* a call that both staged additions onto an existing memory and evicted
C2_Witness ==
    /\ Completed
    /\ {"stage", "evict"} \subseteq Kinds
    /\ MemLen(mem0) > 0
    /\ CounterSum(counter) = MemLen(self_ext_mem)

\* ------------------------------------------------------------------ C3
\* C3: for every capacity >= 1 the number of samples in Memory is at most
\* the capacity after every call.
C3_CapacityBound ==
    (mem_size >= 1 /\ pc = "idle") => MemLen(self_ext_mem) <= mem_size

\* a call that filled the memory to the brim and then met more admissible
\* patterns
C3_Witness ==
    /\ Completed
    /\ mem_size >= 2
    /\ MemLen(self_ext_mem) = mem_size
    /\ {"stage", "evict"} \subseteq Kinds

\* ------------------------------------------------------------------ C4
\* C4: with a capacity >= 1, a call never ends by an exception, whatever
\* the state it starts from and whatever labels it is fed.
C4_NeverRaises ==
    mem_size >= 1 => pc # "raised"

\* ------------------------------------------------------------------ C5
\* C5: an admissible pattern met while sum(counter) >= capacity overwrites
\* exactly one Memory entry of the most represented label, that label's
\* count drops by 1 and the pattern's label's count rises by 1.  (Stated
\* for a Memory that an earlier call has populated; the Memory that is
\* still None is C4's.)
C5_EvictionStep ==
    \A t \in Labels :
        (/\ Iter(t)
         /\ mem_size >= 1
         /\ ~self_ext_mem.isNone
         /\ CounterSum(counter) >= mem_size
         /\ (t \notin CounterKeys(counter)
               \/ CounterGet(counter, t) < mem_size \div Len(counter)))
        => /\ pc' = "loop"
           /\ \E j \in DOMAIN self_ext_mem.tensors[2] :
                 /\ self_ext_mem.tensors[2][j] = to_remove(counter)
                 /\ self_ext_mem'.tensors[1][j] = n_seen + 1
                 /\ self_ext_mem'.tensors[2][j] = t
                 /\ DifferOnlyAt(self_ext_mem, self_ext_mem', j)
           /\ counter' = CounterAdd(CounterAdd(counter, to_remove(counter), -1), t, 1)

C5_EvictionReplacesVictim == [][C5_EvictionStep]_vars

\* ------------------------------------------------------------------ C6
\* the last call introduced a label the counter did not hold before and
\* left the Memory at capacity
NewLabelAtCapacity ==
    /\ Completed
    /\ mem_size >= 1
    /\ CounterKeys(counter) # CounterKeys(counter0)
    /\ MemLen(self_ext_mem) = mem_size

\* no count above ceil(capacity / distinct labels seen) + 1
Balanced ==
    \A l \in CounterKeys(counter) :
        CounterGet(counter, l) <= CeilDiv(mem_size, Len(counter)) + 1

\* C6 as stated: after any call that introduces an unseen label and ends
\* with Memory at capacity, no count exceeds
\* ceil(capacity / distinct labels seen) by more than 1.
C6_BalanceAsStated ==
    NewLabelAtCapacity => Balanced

\* C6: the same for capacities up to 5; from capacity 6 on a first class
\* that filled capacity - 1 slots keeps them when a second class arrives.
C6_BalanceSmallCapacity ==
    (NewLabelAtCapacity /\ mem_size <= 5) => Balanced

\* a new class arrived by eviction at capacity 5 and the counts are at the
\* edge of the bound: 4 = ceil(5 / 2) + 1
C6_Witness ==
    /\ NewLabelAtCapacity
    /\ mem_size = 5
    /\ "evict" \in Kinds
    /\ Len(counter) = 2
    /\ \E l \in CounterKeys(counter) : CounterGet(counter, l) = 4

\* ------------------------------------------------------------------ C7
\* C7: a pattern met while Memory plus pending additions is below capacity
\* evicts nothing (no Memory slot changes, no count drops) and, if
\* admissible, is appended to the pending additions; the Memory length
\* after the call has grown by the number of such admissible patterns.
C7_FillStep ==
    \A t \in Labels :
        (Iter(t) /\ Held < mem_size)
        => /\ pc' = "loop"
           /\ self_ext_mem' = self_ext_mem
           /\ \A l \in CounterKeys(counter) :
                 /\ l \in CounterKeys(counter')
                 /\ CounterGet(counter', l) >= CounterGet(counter, l)
           /\ IF t \notin CounterKeys(counter)
                 \/ CounterGet(counter, t) < mem_size \div Len(counter)
              THEN /\ ext_mem' = <<Append(ext_mem[1], n_seen + 1), Append(ext_mem[2], t)>>
                   /\ t \in CounterKeys(counter')
                   /\ CounterGet(counter', t)
                        = 1 + (IF t \in CounterKeys(counter)
                               THEN CounterGet(counter, t) ELSE 0)
              ELSE ext_mem' = ext_mem /\ counter' = counter

C7_GrowthAtReturn ==
    Completed =>
        MemLen(self_ext_mem)
          = MemLen(mem0)
            + Cardinality({k \in DOMAIN log : log[k].eligible /\ ~log[k].full})

C7_MonotonicFill ==
    [][C7_FillStep]_vars /\ []C7_GrowthAtReturn

\* a call that appended two patterns to a Memory that held some already
C7_Witness ==
    /\ Completed
    /\ MemLen(mem0) > 0
    /\ Cardinality({k \in DOMAIN log : log[k].kind = "stage"}) >= 2
    /\ Kinds = {"stage"}
    /\ MemLen(self_ext_mem) = MemLen(mem0) + Len(log)

\* ------------------------------------------------------------------ C8
\* C8: a pattern whose label is in the counter with
\* counter[label] >= floor(capacity / number of labels in the counter) is
\* discarded: Memory, counter and pending additions stay as they are.
C8_IneligibleNoEffect ==
    [][\A t \in Labels :
          (/\ Iter(t)
           /\ t \in CounterKeys(counter)
           /\ CounterGet(counter, t) >= mem_size \div Len(counter))
          => /\ pc' = "loop"
             /\ self_ext_mem' = self_ext_mem
             /\ counter' = counter
             /\ ext_mem' = ext_mem]_vars

\* the quota boundary with two classes: both at floor(capacity / 2), and a
\* pattern of one of them has just been discarded
C8_Witness ==
    /\ pc = "loop"
    /\ log # <<>>
    /\ log[Len(log)].kind = "discard"
    /\ mem_size >= 4
    /\ Len(counter) = 2
    /\ \A l \in CounterKeys(counter) : 2 * CounterGet(counter, l) = mem_size

\* ------------------------------------------------------------------ C9
\* C9: a call with an empty train_dataset leaves Memory and counter as they
\* were, and publishes the unchanged Memory.
C9_EmptyStepNoOp ==
    (Completed /\ hist[Len(hist)] = <<>>)
        => /\ self_ext_mem = mem0
           /\ counter = counter0
           /\ namespace = mem0

\* an empty call on a component that holds samples
C9_Witness ==
    /\ Completed
    /\ hist[Len(hist)] = <<>>
    /\ MemLen(mem0) > 0
    /\ namespace = self_ext_mem

\* an empty call on a component that was never populated
C9_WitnessFresh ==
    /\ Completed
    /\ hist = << <<>> >>
    /\ self_ext_mem = None

\* ----------------------------------------------------------------- C10
\* C10: from a fresh component of capacity C, a call with C patterns of one
\* label L leaves counter = {L: C} and C samples in Memory; a following
\* call with one pattern of another label M leaves counter = {L: C-1, M: 1},
\* C samples in Memory, the M pattern among them.
C10_FillThenNewClass ==
    \A L \in Labels : \A M \in Labels \ {L} :
        (/\ Completed
         /\ mem_size >= 1
         /\ hist[1] = [k \in 1 .. mem_size |-> L])
        => /\ Len(hist) = 1
              => /\ counter = << <<L, mem_size>> >>
                 /\ MemLen(self_ext_mem) = mem_size
           /\ (Len(hist) = 2 /\ hist[2] = <<M>>)
              => /\ counter = << <<L, mem_size - 1>>, <<M, 1>> >>
                 /\ MemLen(self_ext_mem) = mem_size
                 /\ InMemory(self_ext_mem, mem_size + 1, M)

\* the instance C = 4, L = 0, M = 1 after its second call
C10_Witness ==
    /\ pc = "idle"
    /\ mem_size = 4
    /\ hist = << <<0, 0, 0, 0>>, <<1>> >>
    /\ counter = << <<0, 3>>, <<1, 1>> >>

\* ----------------------------------------------------------------- C11
\* every label a run may deliver, whichever specification drives it
AnyLabel == 0 .. NumLabels

\* the pattern of this iteration was admitted: it changed the counter or
\* the admission branch raised
Admitted == counter' # counter \/ pc' = "raised"

\* C11: each pattern is tested against the quota of the counter as the
\* earlier patterns of the same call left it: 1 if the counter is empty,
\* floor(capacity / number of labels in the counter) otherwise; a pattern is
\* admitted exactly if its label is new or its count is below that quota.
C11_QuotaPerSample ==
    [][\A t \in AnyLabel :
          Iter(t)
          => (Admitted
                <=> (\/ t \notin CounterKeys(counter)
                     \/ CounterGet(counter, t)
                          < (IF counter = <<>> THEN 1
                             ELSE mem_size \div Len(counter))))]_vars

\* a pattern of a known label has just been discarded that the quota at the
\* start of the call would have admitted: a label admitted earlier in the
\* call has shrunk the quota
C11_Witness ==
    /\ pc = "loop"
    /\ log # <<>>
    /\ log[Len(log)].kind = "discard"
    /\ counter0 # <<>>
    /\ Len(counter) > Len(counter0)
    /\ LET t == log[Len(log)].sample[2]
       IN /\ t \in CounterKeys(counter0)
          /\ CounterGet(counter, t) = CounterGet(counter0, t)
          /\ CounterGet(counter, t) < mem_size \div Len(counter0)
          /\ CounterGet(counter, t) >= mem_size \div Len(counter)

\* ----------------------------------------------------------------- C13
\* C13: when an eviction finds no Memory slot holding the victim label, the
\* call ends in an error instead of updating the counter and going on.
C13_DesyncAborts ==
    [][\A t \in AnyLabel :
          (/\ Iter(t)
           /\ mem_size >= 1
           /\ CounterSum(counter) >= mem_size
           /\ Eligible(counter, mem_size, t)
           /\ CountLabel(self_ext_mem, to_remove(counter)) = 0)
          => pc' = "raised" /\ counter' = counter]_vars

\* ----------------------------------------------------------------- C14
\* C14: a capacity of 0 is rejected at construction, so no component of
\* capacity 0 ever enters adapt_train_dataset.
C14_ZeroCapacityRejected ==
    mem_size = 0 => (pc = "idle" /\ hist = <<>>)

\* ----------------------------------------------------------------- C15
\* the count of label l, 0 for a label the counter does not hold
CountOf(c, l) == IF l \in CounterKeys(c) THEN CounterGet(c, l) ELSE 0

\* C15: at every eviction (admissible pattern, sum(counter) >= capacity,
\* capacity >= 1) the victim label differs from the pattern's label: the
\* pattern's class gains one count, another class loses one.
C15_VictimDiffers ==
    [][\A t \in AnyLabel :
          (/\ Iter(t)
           /\ pc' = "loop"
           /\ mem_size >= 1
           /\ CounterSum(counter) >= mem_size
           /\ (t \notin CounterKeys(counter)
                 \/ CounterGet(counter, t) < mem_size \div Len(counter)))
          => /\ log'[Len(log')].kind = "evict"
             /\ log'[Len(log')].victim # t
             /\ CountOf(counter', t) = CountOf(counter, t) + 1
             /\ \E v \in CounterKeys(counter) \ {t} :
                   CountOf(counter', v) = CountOf(counter, v) - 1]_vars

\* an eviction by a pattern of an already known class has just overwritten
\* a slot of another class
C15_Witness ==
    /\ pc = "loop"
    /\ log # <<>>
    /\ LET e == log[Len(log)]
       IN /\ e.kind = "evict"
          /\ e.slot > 0
          /\ e.sample[2] \in CounterKeys(counter0)
          /\ e.victim # e.sample[2]
          /\ CounterGet(counter, e.sample[2]) >= 2

\* ----------------------------------------------------------------- C16
\* the patterns the running/last call has staged
StagedPatterns == {log[k].sample[1] : k \in {n \in DOMAIN log : log[n].kind = "stage"}}

\* no iteration of the loop removes or replaces a pending addition, and a
\* Memory slot that an iteration overwrites did not hold a pattern staged
\* in this call
C16_LoopStep ==
    (pc = "loop" /\ pc' = "loop")
    => /\ \A j \in DOMAIN ext_mem[1] :
             /\ j \in DOMAIN ext_mem'[1]
             /\ ext_mem'[1][j] = ext_mem[1][j]
             /\ ext_mem'[2][j] = ext_mem[2][j]
       /\ \A j \in DOMAIN self_ext_mem.tensors[1] :
             self_ext_mem'.tensors[1][j] # self_ext_mem.tensors[1][j]
             => self_ext_mem.tensors[1][j] \notin StagedPatterns

\* every pattern staged during a call is in Memory when the call returns
C16_StagedAtReturn ==
    Completed =>
        \A k \in DOMAIN log :
            log[k].kind = "stage"
            => InMemory(self_ext_mem, log[k].sample[1], log[k].sample[2])

\* C16: eviction searches only the Memory committed before the call: the
\* patterns staged during a call are never the overwritten slot and are
\* all in Memory when the call returns.
C16_StagedNeverEvicted ==
    [][C16_LoopStep]_vars /\ []C16_StagedAtReturn

\* a call staged a pattern and afterwards evicted from a Memory
\* that held samples; the staged pattern is in Memory at the return
C16_Witness ==
    /\ Completed
    /\ MemLen(mem0) > 0
    /\ \E k \in DOMAIN log : \E n \in DOMAIN log :
          /\ k < n
          /\ log[k].kind = "stage"
          /\ log[n].kind = "evict"
          /\ log[n].slot > 0
          /\ InMemory(self_ext_mem, log[k].sample[1], log[k].sample[2])

\* ------------------------------------------- more labels than capacity
\* GDumbPlugin.__init__ with a small mem_size
InitSmall == Init /\ mem_size <= SmallCap

\* the calls of adapt_train_dataset over one more label than Labels holds
NextManyLabels ==
    \/ Call
    \/ \E t \in AnyLabel : Discard(t)
    \/ \E t \in AnyLabel : Stage(t)
    \/ \E t \in AnyLabel : Evict(t)
    \/ \E t \in AnyLabel : EvictRaise(t)
    \/ Return

SpecManyLabels == InitSmall /\ [][NextManyLabels]_vars

\* ----------------------------------------------------------------- C17
\* no key ever leaves the counter
C17_KeysStay == CounterKeys(counter) \subseteq CounterKeys(counter')

\* with more labels in the counter than the capacity, a pattern of a label
\* of the counter is discarded whatever its count, a pattern of a label the
\* counter does not hold passes the admission test and enters the counter
C17_QuotaZero ==
    \A t \in AnyLabel :
        (Iter(t) /\ Len(counter) > mem_size)
        => IF t \in CounterKeys(counter)
           THEN /\ pc' = "loop"
                /\ counter' = counter
                /\ self_ext_mem' = self_ext_mem
                /\ ext_mem' = ext_mem
           ELSE /\ pc' = "loop"
                /\ t \in CounterKeys(counter')
                /\ CounterGet(counter', t) = 1

\* C17: a label whose count evictions brought to 0 stays a key of the
\* counter and in the quota's denominator; once the counter holds more
\* labels than the capacity, every later pattern of a label of the counter
\* is discarded, only labels it does not hold are admitted.
C17_LabelsNeverForgotten ==
    [][C17_KeysStay /\ C17_QuotaZero]_vars

\* with more labels than capacity in the counter a never-seen label was
\* admitted, and then a pattern of a label with no sample in Memory and
\* count 0 was discarded
C17_Witness ==
    /\ pc = "loop"
    /\ mem_size >= 1
    /\ Len(log) >= 2
    /\ Len(counter) - 1 > mem_size
    /\ LET e == log[Len(log) - 1]
           f == log[Len(log)]
       IN /\ e.kind = "evict"
          /\ e.sample[2] = counter[Len(counter)][1]
          /\ f.kind = "discard"
          /\ CounterGet(counter, f.sample[2]) = 0
          /\ CountLabel(self_ext_mem, f.sample[2]) = 0

\* ----------------------------------------------------------------- C18
\* C18: the number of samples in Memory never decreases, and once it
\* equals the capacity it stays equal to it: only the contents change.
C18_NeverShrinks ==
    [][/\ MemLen(self_ext_mem') >= MemLen(self_ext_mem)
       /\ MemLen(self_ext_mem) = mem_size => MemLen(self_ext_mem') = mem_size]_vars

\* a call on a full Memory that returned with other contents, same length
C18_Witness ==
    /\ Completed
    /\ mem_size >= 2
    /\ MemLen(mem0) = mem_size
    /\ MemLen(self_ext_mem) = mem_size
    /\ self_ext_mem # mem0
    /\ "evict" \in Kinds

\* ----------------------------------------------------------------- C19
\* C19: with a capacity >= 1 every value of the counter is >= 0.
C19_CountsNonNegative ==
    mem_size >= 1 => \A n \in DOMAIN counter : counter[n][2] >= 0

\* evictions have brought two classes down to 0, the second one while the
\* first was at 0 already
C19_Witness ==
    /\ mem_size >= 1
    /\ Cardinality({n \in DOMAIN counter : counter[n][2] = 0}) >= 2
    /\ log # <<>>
    /\ log[Len(log)].kind = "evict"

=============================================================================
